---- MODULE Spec2Model ----
(***************************************************************************)
(* State-machine model of the chat client's session orchestrator           *)
(* (ChatApp.tsx) and conversation store (chat/ChatInterface.tsx).          *)
(*                                                                         *)
(* Every asynchronous handler is split at its await: the part before the   *)
(* await (the call is issued), the provider's response, and the            *)
(* continuation after the await.  Steps of different handlers interleave   *)
(* only at these points, as on the single JavaScript thread.               *)
(***************************************************************************)
EXTENDS Integers, Sequences, FiniteSets, TLC

\* ------------------------------------------------------------------ bounds
\* auth-state-change notifications the identity provider emits in one run
MaxAuthEvents == 2
\* messages a conversation snapshot may hold (two of them are the mock ones)
MaxMessages == 4
\* clock readings (milliseconds) after the first one
MaxTicks == 1
\* sign-out calls that may be in flight at once
MaxLogoutInFlight == 1
\* notifications in one run of the conversation store's specification
MaxChatAuthEvents == 1
\* inbound realtime events handled in one run
MaxInbound == 2
\* conversations in the store when the view functions are checked
MaxChats == 2

\* ------------------------------------------------------------------- data
\* JavaScript null / undefined
Null == [kind |-> "null"]

\* '' and the strings of the program are sequences of tokens; a token is a
\* run of non-blank characters or one blank
EmptyText == << >>
Blank == " "

Principal(i, e) == [kind |-> "user", id |-> i, email |-> e]
Users ==
  { Principal("u1", <<"a", "@", "x.com">>),
    Principal("u2", <<"jane", "@", "x.com">>) }
Emails == {u.email : u \in Users}
\* the addresses typed into the login form and into the register form
LoginEmails == { <<"a", "@", "x.com">> }
RegisterEmails == { <<"jane", "@", "x.com">> }
UserByEmail(e) == CHOOSE u \in Users : u.email = e

SessionOf(u) == [kind |-> "session", user |-> u]
Sessions == {Null} \cup {SessionOf(u) : u \in Users}

\* session?.user ?? null
SessionUser(s) == IF s = Null THEN Null ELSE s.user

\* String.prototype.trim
RECURSIVE TrimStart(_)
TrimStart(t) ==
  IF t = << >> THEN << >>
  ELSE IF Head(t) = Blank THEN TrimStart(Tail(t)) ELSE t

RECURSIVE TrimEnd(_)
TrimEnd(t) ==
  IF t = << >> THEN << >>
  ELSE IF t[Len(t)] = Blank THEN TrimEnd(SubSeq(t, 1, Len(t) - 1)) ELSE t

Trim(t) == TrimEnd(TrimStart(t))

\* email.split('@')[0]
RECURSIVE SplitAtFirst(_)
SplitAtFirst(t) ==
  IF t = << >> THEN << >>
  ELSE IF Head(t) = "@" THEN << >> ELSE <<Head(t)>> \o SplitAtFirst(Tail(t))

\* what the user can have typed into the message box
Drafts == { <<" ">>, <<" ", "hi", " ">> }

\* Date.now() at the first render; later readings are ClockStart + ticks
ClockStart == 1000 * 60 * 60

VARIABLES
  \* ChatApp state (ChatApp.tsx 36-41)
  authMode, currentUser, user, session, pendingEmail, isLoading,
  \* calls awaiting the provider
  getSessionCall, loginCall, registerCall, otpCall, resendCall, logoutCalls,
  \* the session the identity provider holds for this browser, its
  \* notifications not yet handed to the listener, the deferred
  \* fetchUserProfile timers, the notifications emitted so far, Date.now()
  provider, notifs, timers, nEvents, now,
  \* ChatInterface state (ChatInterface.tsx 49-56) and open realtime channels
  selectedChat, chats, message, searchQuery, isMobile, channels,
  \* the titles of the toasts shown by the latest step
  toasts,
  \* the payloads the realtime callback has written to the browser console
  console

appVars == <<authMode, currentUser, user, session, pendingEmail, isLoading>>
callVars == <<getSessionCall, loginCall, registerCall, otpCall, resendCall, logoutCalls>>
envVars == <<provider, notifs, timers, nEvents, now>>
chatVars == <<selectedChat, chats, message, searchQuery, isMobile, channels>>
vars == <<appVars, callVars, envVars, chatVars, toasts, console>>

\* a step that shows no toast
NoToast == toasts' = << >>

\* an awaited call: not issued, or awaiting the provider's answer
Idle == [st |-> "idle"]
Pending(e) == [st |-> "pending", email |-> e]

\* ------------------------------------------------------- Profile Resolver
\* the `user` that the auth listener's fetchUserProfile reads: the listener
\* is registered by an effect with no dependencies, so it keeps the
\* fetchUserProfile of the first render, whose `user` is the initial null
closureUser == Null

\* fetchUserProfile's defaultUser (the try block cannot throw)
fetchUserProfile(userId, u) ==
  LET local == IF u = Null THEN EmptyText ELSE SplitAtFirst(u.email)
  IN [kind |-> "profile",
      id |-> userId,
      name |-> IF local = EmptyText THEN <<"User">> ELSE local,
      email |-> IF u = Null THEN EmptyText ELSE u.email,
      status |-> "online"]

\* ----------------------------------------------------- Conversation Store
Alice ==
  [kind |-> "profile", id |-> "mock-user-1", name |-> <<"Alice", " ", "Johnson">>,
   email |-> <<"alice", "@", "example.com">>, status |-> "online"]

Message(i, sender, senderName, content, ts) ==
  [id |-> i, senderId |-> sender, senderName |-> senderName,
   content |-> content, timestamp |-> ts, type |-> "text"]

mockChats(cu, t) ==
  << [id |-> "1",
      participants |-> <<cu, Alice>>,
      messages |->
        << Message("1", "mock-user-1", Alice.name,
                   <<"Hey", " ", "there!", " ", "How", " ", "are", " ", "you", " ", "doing?">>,
                   t - 1000 * 60 * 30),
           Message("2", cu.id, cu.name,
                   <<"I'm", " ", "doing", " ", "great!", " ", "Thanks", " ", "for", " ",
                     "asking.", " ", "How", " ", "about", " ", "you?">>,
                   t - 1000 * 60 * 25) >>,
      isGroup |-> FALSE,
      name |-> Null] >>

\* (mutant) loadChats focuses the first conversation in every layout
loadChatsSelected_IgnoresLayout(cu, t, mobile, sel) ==
  IF Len(mockChats(cu, t)) > 0 THEN mockChats(cu, t)[1] ELSE sel

\* loadChats: setChats(mockChats), and setSelectedChat(mockChats[0]) unless
\* the layout is mobile; sel is the selection before the call
loadChatsSelected(cu, t, mobile, sel) ==
  IF Len(mockChats(cu, t)) > 0 /\ ~mobile THEN mockChats(cu, t)[1] ELSE sel

\* ChatApp renders ChatInterface only in chat mode with a resolved profile
Mounted(am, cu) == am = "chat" /\ cu # Null

\* What a ChatApp state change does to ChatInterface.  am, cu: authMode and
\* currentUser after the change; cuSet: setCurrentUser was called with a new
\* profile object.  Leaving chat mode unmounts ChatInterface and discards its
\* state; mounting it, or a new currentUser object, runs the effect
\* useEffect(() => { loadChats(); setupRealtimeSubscriptions(); }, [currentUser]),
\* whose cleanup function is never registered, so no channel is ever removed.
ChatInterfaceNext(am, cu, cuSet) ==
  /\ isMobile' = isMobile
  /\ IF ~Mounted(am, cu)
       THEN /\ selectedChat' = Null
            /\ chats' = << >>
            /\ message' = EmptyText
            /\ searchQuery' = EmptyText
            /\ channels' = channels
     ELSE IF ~Mounted(authMode, currentUser)
       THEN /\ chats' = mockChats(cu, now)
            /\ selectedChat' = loadChatsSelected(cu, now, isMobile, Null)
            /\ message' = EmptyText
            /\ searchQuery' = EmptyText
            /\ channels' = channels + 1
     ELSE IF cuSet
       THEN /\ chats' = mockChats(cu, now)
            /\ selectedChat' = loadChatsSelected(cu, now, isMobile, selectedChat)
            /\ message' = message
            /\ searchQuery' = searchQuery
            /\ channels' = channels + 1
     ELSE UNCHANGED <<selectedChat, chats, message, searchQuery, channels>>

\* ------------------------------------------------------------------- Init
Init ==
  /\ authMode = "login"
  /\ currentUser = Null
  /\ user = Null
  /\ session = Null
  /\ pendingEmail = EmptyText
  /\ isLoading = FALSE
  /\ getSessionCall = "pending"
  /\ loginCall = Idle
  /\ registerCall = Idle
  /\ otpCall = Idle
  /\ resendCall = FALSE
  /\ logoutCalls = 0
  /\ provider \in Sessions
  /\ notifs = << >>
  /\ timers = << >>
  /\ nEvents = 0
  /\ now = ClockStart
  /\ selectedChat = Null
  /\ chats = << >>
  /\ message = EmptyText
  /\ searchQuery = EmptyText
  /\ isMobile \in BOOLEAN
  /\ channels = 0
  /\ toasts = << >>
  /\ console = << >>

\* ----------------------------------------------- Identity Session: events
\* the provider's session becomes s and it emits an auth-state-change
\* notification carrying s
Notify(s, cause) ==
  /\ nEvents < MaxAuthEvents
  /\ nEvents' = nEvents + 1
  /\ provider' = s
  /\ notifs' = Append(notifs, [session |-> s, cause |-> cause])

NoNotify == UNCHANGED <<provider, notifs, nEvents>>

\* a notification that no call of this client caused: the session expired
\* or was signed out elsewhere (s is null), its token was refreshed (s is the
\* provider's session), another tab signed in (s is a new session)
ExternalAuthEvent(s) ==
  /\ NoToast
  /\ UNCHANGED console
  /\ s = Null => provider # Null
  /\ Notify(s, "external")
  /\ UNCHANGED <<appVars, callVars, timers, now, chatVars>>

\* (mutant) the listener stores the session but leaves the mode alone
onAuthStateChange_NoChat(s) ==
  /\ session' = s
  /\ user' = SessionUser(s)
  /\ authMode' = authMode
  /\ IF SessionUser(s) # Null
       THEN /\ timers' = Append(timers, s.user.id)
            /\ currentUser' = currentUser
       ELSE /\ currentUser' = Null
            /\ timers' = timers

\* the listener passed to supabase.auth.onAuthStateChange
onAuthStateChange(s) ==
  /\ session' = s
  /\ user' = SessionUser(s)
  /\ IF SessionUser(s) # Null
       THEN /\ timers' = Append(timers, s.user.id)
            /\ authMode' = "chat"
            /\ currentUser' = currentUser
       ELSE /\ currentUser' = Null
            /\ authMode' = "login"
            /\ timers' = timers

\* the provider hands the oldest pending notification to the listener
DeliverAuthStateChange ==
  /\ NoToast
  /\ UNCHANGED console
  /\ notifs # << >>
  /\ onAuthStateChange(Head(notifs).session)
  /\ notifs' = Tail(notifs)
  /\ ChatInterfaceNext(authMode', currentUser', FALSE)
  /\ UNCHANGED <<pendingEmail, isLoading, callVars, provider, nEvents, now>>

\* setTimeout(() => fetchUserProfile(session.user.id), 0) fires
FetchUserProfileTimer ==
  /\ NoToast
  /\ UNCHANGED console
  /\ timers # << >>
  /\ currentUser' = fetchUserProfile(Head(timers), closureUser)
  /\ timers' = Tail(timers)
  /\ ChatInterfaceNext(authMode, currentUser', TRUE)
  /\ UNCHANGED <<authMode, user, session, pendingEmail, isLoading, callVars,
                 provider, notifs, nEvents, now>>

\* supabase.auth.getSession().then(...) of the mount effect, with the
\* session the provider holds
getSessionThen ==
  /\ NoToast
  /\ UNCHANGED console
  /\ getSessionCall = "pending"
  /\ getSessionCall' = "done"
  /\ session' = provider
  /\ user' = SessionUser(provider)
  /\ IF SessionUser(provider) # Null
       THEN /\ currentUser' = fetchUserProfile(provider.user.id, closureUser)
            /\ authMode' = "chat"
            /\ ChatInterfaceNext("chat", currentUser', TRUE)
       ELSE /\ UNCHANGED <<currentUser, authMode>>
            /\ ChatInterfaceNext(authMode, currentUser, FALSE)
  /\ UNCHANGED <<pendingEmail, isLoading, loginCall, registerCall, otpCall,
                 resendCall, logoutCalls, envVars>>

\* --------------------------------------------- Identity Session: handlers
\* An awaited provider call resolves in one step: the provider's answer, the
\* notification it emits on success, and the rest of the handler (the try
\* body or the catch, then finally) run back to back as promise reactions,
\* with no event handler or timer in between.

\* The toast a ChatApp handler shows after its await (ok: the call returned
\* no error), and the toast the form that awaited the handler shows next
\* (rejected: the handler's promise rejected).  Every handler catches what it
\* throws, so its promise never rejects.
handleLoginToast(ok) == IF ok THEN "Welcome back!" ELSE "Login failed"
LoginFormToast(rejected) == IF rejected THEN "Login failed" ELSE "Welcome back!"
handleRegisterToast(ok) == IF ok THEN "Account created!" ELSE "Registration failed"
RegisterFormToast(rejected) == IF rejected THEN "Registration failed" ELSE "Account created!"
handleOTPVerificationToast(ok) == IF ok THEN "Email verified!" ELSE "Verification failed"
OTPFormToast(rejected) == IF rejected THEN "Verification failed" ELSE "Email verified!"
handleResendOTPToast(ok) == IF ok THEN "OTP resent" ELSE "Failed to resend OTP"
OTPFormResendToast(rejected) == IF rejected THEN "Failed to resend OTP" ELSE "OTP resent"
handleLogoutToast(ok) == IF ok THEN "Logged out" ELSE "Logout failed"

\* the toggles of the two forms: setAuthMode("register"), setAuthMode("login")
onSwitchToRegister ==
  /\ NoToast
  /\ UNCHANGED console
  /\ authMode = "login"
  /\ authMode' = "register"
  /\ UNCHANGED <<currentUser, user, session, pendingEmail, isLoading,
                 callVars, envVars, chatVars>>

onSwitchToLogin ==
  /\ NoToast
  /\ UNCHANGED console
  /\ authMode = "register"
  /\ authMode' = "login"
  /\ UNCHANGED <<currentUser, user, session, pendingEmail, isLoading,
                 callVars, envVars, chatVars>>

\* handleLogin up to its await; the submit button is disabled while isLoading
handleLogin(e) ==
  /\ NoToast
  /\ UNCHANGED console
  /\ authMode = "login"
  /\ ~isLoading
  /\ loginCall = Idle
  /\ isLoading' = TRUE
  /\ loginCall' = Pending(e)
  /\ UNCHANGED <<authMode, currentUser, user, session, pendingEmail,
                 getSessionCall, registerCall, otpCall, resendCall, logoutCalls,
                 envVars, chatVars>>

\* handleLogin after the await: the try body / the catch, each with finally
handleLoginTry ==
  /\ isLoading' = FALSE
  /\ UNCHANGED <<authMode, currentUser, user, session, pendingEmail>>

\* (mutant) a failed sign-in also drops the session and returns to login
handleLoginCatch_SignsOut ==
  /\ isLoading' = FALSE
  /\ authMode' = "login"
  /\ user' = Null
  /\ session' = Null
  /\ UNCHANGED <<currentUser, pendingEmail>>

\* (mutant) a failed sign-in leaves the spinner on
handleLoginCatch_KeepsLoading ==
  UNCHANGED <<isLoading, authMode, currentUser, user, session, pendingEmail>>

handleLoginCatch ==
  /\ isLoading' = FALSE
  /\ UNCHANGED <<authMode, currentUser, user, session, pendingEmail>>

\* signInWithPassword resolves; on success the provider emits SIGNED_IN
handleLoginThen(ok) ==
  /\ toasts' = <<handleLoginToast(ok), LoginFormToast(FALSE)>>
  /\ UNCHANGED console
  /\ loginCall # Idle
  /\ IF ok
       THEN /\ Notify(SessionOf(UserByEmail(loginCall.email)), "login")
            /\ handleLoginTry
       ELSE /\ NoNotify
            /\ handleLoginCatch
  /\ loginCall' = Idle
  /\ ChatInterfaceNext(authMode', currentUser', FALSE)
  /\ UNCHANGED <<getSessionCall, registerCall, otpCall, resendCall, logoutCalls,
                 timers, now>>

\* handleRegister up to its await
handleRegister(e) ==
  /\ NoToast
  /\ UNCHANGED console
  /\ authMode = "register"
  /\ ~isLoading
  /\ registerCall = Idle
  /\ isLoading' = TRUE
  /\ registerCall' = Pending(e)
  /\ UNCHANGED <<authMode, currentUser, user, session, pendingEmail,
                 getSessionCall, loginCall, otpCall, resendCall, logoutCalls,
                 envVars, chatVars>>

\* handleRegister after the await
handleRegisterTry(e) ==
  /\ pendingEmail' = e
  /\ authMode' = "otp"
  /\ isLoading' = FALSE
  /\ UNCHANGED <<currentUser, user, session>>

\* (mutant) a failed sign-up shows the register form again
handleRegisterCatch_ToRegister ==
  /\ isLoading' = FALSE
  /\ authMode' = "register"
  /\ UNCHANGED <<currentUser, user, session, pendingEmail>>

\* (mutant) a failed sign-up still asks for the emailed code
handleRegisterCatch_ToOtp ==
  /\ isLoading' = FALSE
  /\ authMode' = "otp"
  /\ pendingEmail' = registerCall.email
  /\ UNCHANGED <<currentUser, user, session>>

handleRegisterCatch ==
  /\ isLoading' = FALSE
  /\ UNCHANGED <<authMode, currentUser, user, session, pendingEmail>>

\* signUp resolves; the account awaits the emailed code, no session is issued
handleRegisterThen(ok) ==
  /\ toasts' = <<handleRegisterToast(ok), RegisterFormToast(FALSE)>>
  /\ UNCHANGED console
  /\ registerCall # Idle
  /\ IF ok THEN handleRegisterTry(registerCall.email) ELSE handleRegisterCatch
  /\ registerCall' = Idle
  /\ ChatInterfaceNext(authMode', currentUser', FALSE)
  /\ UNCHANGED <<getSessionCall, loginCall, otpCall, resendCall, logoutCalls,
                 envVars>>

\* handleOTPVerification up to its await; verifyOtp is called with the
\* pendingEmail of the render that issued it
handleOTPVerification ==
  /\ NoToast
  /\ UNCHANGED console
  /\ authMode = "otp"
  /\ ~isLoading
  /\ otpCall = Idle
  /\ isLoading' = TRUE
  /\ otpCall' = Pending(pendingEmail)
  /\ UNCHANGED <<authMode, currentUser, user, session, pendingEmail,
                 getSessionCall, loginCall, registerCall, resendCall, logoutCalls,
                 envVars, chatVars>>

\* (mutant) a verified code switches to chat without waiting for the listener
handleOTPVerificationTry_SetsChat ==
  /\ isLoading' = FALSE
  /\ authMode' = "chat"
  /\ UNCHANGED <<currentUser, user, session, pendingEmail>>

\* handleOTPVerification after the await
handleOTPVerificationTry ==
  /\ isLoading' = FALSE
  /\ UNCHANGED <<authMode, currentUser, user, session, pendingEmail>>

\* (mutant) a wrong code sends the user back to the register form
handleOTPVerificationCatch_ToRegister ==
  /\ isLoading' = FALSE
  /\ authMode' = "register"
  /\ pendingEmail' = EmptyText
  /\ UNCHANGED <<currentUser, user, session>>

handleOTPVerificationCatch ==
  /\ isLoading' = FALSE
  /\ UNCHANGED <<authMode, currentUser, user, session, pendingEmail>>

\* verifyOtp resolves; on success the provider emits SIGNED_IN
handleOTPVerificationThen(ok) ==
  /\ toasts' = <<handleOTPVerificationToast(ok), OTPFormToast(FALSE)>>
  /\ UNCHANGED console
  /\ otpCall # Idle
  /\ IF ok
       THEN /\ Notify(SessionOf(UserByEmail(otpCall.email)), "otp")
            /\ handleOTPVerificationTry
       ELSE /\ NoNotify
            /\ handleOTPVerificationCatch
  /\ otpCall' = Idle
  /\ ChatInterfaceNext(authMode', currentUser', FALSE)
  /\ UNCHANGED <<getSessionCall, loginCall, registerCall, resendCall, logoutCalls,
                 timers, now>>

\* handleResendOTP up to its await; the resend link is disabled meanwhile
handleResendOTP ==
  /\ NoToast
  /\ UNCHANGED console
  /\ authMode = "otp"
  /\ ~resendCall
  /\ resendCall' = TRUE
  /\ UNCHANGED <<appVars, getSessionCall, loginCall, registerCall, otpCall,
                 logoutCalls, envVars, chatVars>>

\* (mutant) a failed resend gives up the pending verification
handleResendOTPThen_ToRegister(ok) ==
  /\ toasts' = <<handleResendOTPToast(ok), OTPFormResendToast(FALSE)>>
  /\ UNCHANGED console
  /\ resendCall
  /\ resendCall' = FALSE
  /\ authMode' = IF ok THEN authMode ELSE "register"
  /\ pendingEmail' = IF ok THEN pendingEmail ELSE EmptyText
  /\ UNCHANGED <<currentUser, user, session, isLoading, getSessionCall, loginCall,
                 registerCall, otpCall, logoutCalls, envVars, chatVars>>

\* resend resolves: either way handleResendOTP only shows a toast
handleResendOTPThen(ok) ==
  /\ toasts' = <<handleResendOTPToast(ok), OTPFormResendToast(FALSE)>>
  /\ UNCHANGED console
  /\ resendCall
  /\ resendCall' = FALSE
  /\ UNCHANGED <<appVars, getSessionCall, loginCall, registerCall, otpCall,
                 logoutCalls, envVars, chatVars>>

\* handleLogout up to its await; the button lives in ChatInterface
handleLogout ==
  /\ NoToast
  /\ UNCHANGED console
  /\ Mounted(authMode, currentUser)
  /\ logoutCalls < MaxLogoutInFlight
  /\ logoutCalls' = logoutCalls + 1
  /\ UNCHANGED <<appVars, getSessionCall, loginCall, registerCall, otpCall,
                 resendCall, envVars, chatVars>>

\* (mutant) the sign-out forgets setCurrentUser(null)
handleLogoutTry_KeepsProfile ==
  /\ user' = Null
  /\ session' = Null
  /\ authMode' = "login"
  /\ UNCHANGED <<currentUser, pendingEmail, isLoading>>

\* handleLogout after the await
handleLogoutTry ==
  /\ currentUser' = Null
  /\ user' = Null
  /\ session' = Null
  /\ authMode' = "login"
  /\ UNCHANGED <<pendingEmail, isLoading>>

handleLogoutCatch ==
  UNCHANGED <<authMode, currentUser, user, session, pendingEmail, isLoading>>

\* signOut resolves; on success the provider emits SIGNED_OUT
handleLogoutThen(ok) ==
  /\ toasts' = <<handleLogoutToast(ok)>>
  /\ UNCHANGED console
  /\ logoutCalls > 0
  /\ IF ok
       THEN /\ Notify(Null, "logout")
            /\ handleLogoutTry
       ELSE /\ NoNotify
            /\ handleLogoutCatch
  /\ logoutCalls' = logoutCalls - 1
  /\ ChatInterfaceNext(authMode', currentUser', FALSE)
  /\ UNCHANGED <<getSessionCall, loginCall, registerCall, otpCall, resendCall,
                 timers, now>>

\* ------------------------------------------------ Conversation Store: ops
\* Date.now() advances; only ChatInterface reads the clock, and only
\* differences between its readings matter
Tick ==
  /\ NoToast
  /\ UNCHANGED console
  /\ Mounted(authMode, currentUser)
  /\ now < ClockStart + MaxTicks
  /\ now' = now + 1
  /\ UNCHANGED <<appVars, callVars, provider, notifs, timers, nEvents, chatVars>>

\* useIsMobile() re-renders ChatInterface with another value: the viewport
\* crossed the breakpoint
useIsMobile ==
  /\ NoToast
  /\ UNCHANGED console
  /\ Mounted(authMode, currentUser)
  /\ isMobile' = ~isMobile
  /\ UNCHANGED <<appVars, callVars, envVars, selectedChat, chats, message,
                 searchQuery, channels>>

\* the message box's onChange; the box is rendered for a focused conversation
setMessage(d) ==
  /\ NoToast
  /\ UNCHANGED console
  /\ Mounted(authMode, currentUser)
  /\ selectedChat # Null
  /\ message' = d
  /\ UNCHANGED <<appVars, callVars, envVars, selectedChat, chats, searchQuery,
                 isMobile, channels>>

\* handleChatSelect(chat) for an entry of the rendered conversation list
handleChatSelect(i) ==
  /\ NoToast
  /\ UNCHANGED console
  /\ Mounted(authMode, currentUser)
  /\ i \in 1 .. Len(chats)
  /\ selectedChat' = chats[i]
  /\ UNCHANGED <<appVars, callVars, envVars, chats, message, searchQuery,
                 isMobile, channels>>

\* prev.map(chat => chat.id === selectedChat.id ? updatedChat : chat)
ReplaceChat(prev, updatedChat) ==
  [i \in 1 .. Len(prev) |-> IF prev[i].id = updatedChat.id THEN updatedChat ELSE prev[i]]

\* (mutant) the new message is stamped an hour back
newMessage_Backdated ==
  Message(ToString(now), currentUser.id, currentUser.name, Trim(message),
          now - 1000 * 60 * 60)

newMessage ==
  Message(ToString(now), currentUser.id, currentUser.name, Trim(message), now)

handleSendMessage ==
  /\ NoToast
  /\ UNCHANGED console
  /\ Mounted(authMode, currentUser)
  /\ Trim(message) # EmptyText
  /\ selectedChat # Null
  /\ Len(selectedChat.messages) < MaxMessages
  /\ LET updatedChat ==
           [selectedChat EXCEPT !.messages = Append(selectedChat.messages, newMessage)]
     IN /\ chats' = ReplaceChat(chats, updatedChat)
        /\ selectedChat' = updatedChat
  /\ message' = EmptyText
  /\ UNCHANGED <<appVars, callVars, envVars, searchQuery, isMobile, channels>>

\* ------------------------------------------------ Conversation Store: view
\* String.prototype.toLowerCase, token by token
LowerToken(tok) ==
  CASE tok = "Alice" -> "alice"
    [] tok = "ALICE" -> "alice"
    [] tok = "Johnson" -> "johnson"
    [] tok = "Bob" -> "bob"
    [] tok = "Team" -> "team"
    [] tok = "User" -> "user"
    [] OTHER -> tok
toLowerCase(t) == [i \in 1 .. Len(t) |-> LowerToken(t[i])]

\* String.prototype.includes: q occurs in t as a run of whole tokens; the
\* empty string occurs in every string
includes(t, q) ==
  \E k \in 0 .. Len(t) : k + Len(q) <= Len(t) /\ SubSeq(t, k + 1, k + Len(q)) = q

\* Array.prototype.find: the first element with another id, or undefined
RECURSIVE find(_, _)
find(ps, selfId) ==
  IF ps = << >> THEN Null
  ELSE IF Head(ps).id # selfId THEN Head(ps) ELSE find(Tail(ps), selfId)

getChatPartner(chat, cu) == find(chat.participants, cu.id)

\* the predicate of filteredChats; `x?.name...` of an undefined x is
\* undefined, which `||` and filter treat as false
filterPredicate(chat, q, cu) ==
  LET partner == getChatPartner(chat, cu)
  IN \/ partner # Null /\ includes(toLowerCase(partner.name), toLowerCase(q))
     \/ chat.name # Null /\ includes(toLowerCase(chat.name.text), toLowerCase(q))

filteredChats(cs, q, cu) == SelectSeq(cs, LAMBDA chat : filterPredicate(chat, q, cu))

\* the search box's onChange
setSearchQuery(q) ==
  /\ NoToast
  /\ UNCHANGED console
  /\ Mounted(authMode, currentUser)
  /\ searchQuery' = q
  /\ UNCHANGED <<appVars, callVars, envVars, selectedChat, chats, message,
                 isMobile, channels>>

\* what the user can have typed into the search box
Queries == { << >>, <<"ALICE">>, <<"johnson">>, <<"team">>, <<"zed">> }

\* Chat values for getChatPartner and filteredChats, for the local user cu:
\* a two-party conversation, a named group, an unnamed conversation with the
\* local user alone, an unnamed one with nobody
Bob ==
  [kind |-> "profile", id |-> "mock-user-2", name |-> <<"Bob">>,
   email |-> <<"bob", "@", "example.com">>, status |-> "away"]
\* Chat.name is optional: Null, or Name of its text
Name(t) == [kind |-> "string", text |-> t]
Chat(i, ps, group, nm) ==
  [id |-> i, participants |-> ps, messages |-> << >>, isGroup |-> group, name |-> nm]
ChatValues(cu) ==
  { Chat("1", <<cu, Alice>>, FALSE, Null),
    Chat("2", <<cu, Alice, Bob>>, TRUE, Name(<<"Team">>)),
    Chat("3", <<cu>>, FALSE, Null),
    Chat("4", << >>, FALSE, Null) }
\* the lists of up to MaxChats of them, without repetition
ChatLists(cu) ==
  {cs \in UNION {[1 .. n -> ChatValues(cu)] : n \in 0 .. MaxChats} :
     \A i, j \in 1 .. Len(cs) : i # j => cs[i] # cs[j]}

\* ------------------------------------------------------ Live Event Channel
\* an INSERT on public.messages as the 'messages' channel reports it
Payload(conversationId, m) == [chat_id |-> conversationId, new |-> m]

\* a message of the counterpart that this client has not seen
RemoteMessage == Message("r1", Alice.id, Alice.name, <<"hello">>, ClockStart)

\* the events the channel can report: the row of a message this client sent
\* from the focused conversation, or a new row of the counterpart
InboundPayloads ==
  {Payload("1", RemoteMessage)} \cup
  (IF selectedChat = Null THEN {}
   ELSE {Payload(selectedChat.id, selectedChat.messages[i]) :
           i \in {j \in 1 .. Len(selectedChat.messages) :
                    selectedChat.messages[j].id \notin {"1", "2"}}})

\* (mutant) the callback appends the row to its conversation in the store
onPostgresChanges_Appends(payload) ==
  /\ console' = Append(console, payload)
  /\ chats' = [i \in 1 .. Len(chats) |->
                IF chats[i].id = payload.chat_id
                  THEN [chats[i] EXCEPT !.messages = Append(@, payload.new)]
                  ELSE chats[i]]
  /\ UNCHANGED selectedChat

\* (mutant) the callback focuses the conversation of the reported row
onPostgresChanges_Focuses(payload) ==
  /\ console' = Append(console, payload)
  /\ selectedChat' =
       [Chat(payload.chat_id, << >>, FALSE, Null) EXCEPT !.messages = <<payload.new>>]
  /\ UNCHANGED chats

\* the callback of setupRealtimeSubscriptions: console.log and nothing else
onPostgresChanges(payload) ==
  /\ console' = Append(console, payload)
  /\ UNCHANGED <<chats, selectedChat>>

\* the channel hands an event to the callback of an open subscription
PostgresChangesInsert(payload) ==
  /\ NoToast
  /\ channels > 0
  /\ Len(console) < MaxInbound
  /\ onPostgresChanges(payload)
  /\ UNCHANGED <<appVars, callVars, envVars, message, searchQuery, isMobile, channels>>

\* ------------------------------------------------------------------- Next
\* the identity provider and the timer queue
ProviderStep ==
  \/ \E s \in Sessions : ExternalAuthEvent(s)
  \/ DeliverAuthStateChange
  \/ FetchUserProfileTimer
  \/ getSessionThen

\* the forms of the login, register and verify modes
FormStep ==
  \/ onSwitchToRegister
  \/ onSwitchToLogin
  \/ \E e \in LoginEmails : handleLogin(e)
  \/ \E ok \in BOOLEAN : handleLoginThen(ok)
  \/ \E e \in RegisterEmails : handleRegister(e)
  \/ \E ok \in BOOLEAN : handleRegisterThen(ok)
  \/ handleOTPVerification
  \/ \E ok \in BOOLEAN : handleOTPVerificationThen(ok)
  \/ handleResendOTP
  \/ \E ok \in BOOLEAN : handleResendOTPThen(ok)

LogoutStep ==
  \/ handleLogout
  \/ \E ok \in BOOLEAN : handleLogoutThen(ok)

\* what the user does inside ChatInterface, and the clock it reads
ChatStep ==
  \/ Tick
  \/ useIsMobile
  \/ \E d \in Drafts : setMessage(d)
  \/ \E i \in 1 .. Len(chats) : handleChatSelect(i)
  \/ handleSendMessage

\* The session orchestrator.  The steps of ChatStep read and write only
\* ChatInterface's own state and the clock, so leaving them out changes
\* nothing of what ChatApp's state can do.
Next == ProviderStep \/ FormStep \/ LogoutStep

Spec == Init /\ [][Next]_vars

\* the provider delivers a notification it has emitted
FairSpec == Spec /\ WF_vars(DeliverAuthStateChange)

\* The conversation store.  ChatInterface sees ChatApp only through authMode
\* and currentUser; the forms change them through the notifications that
\* ExternalAuthEvent also emits.
ChatExternalAuthEvent(s) == nEvents < MaxChatAuthEvents /\ ExternalAuthEvent(s)
ChatLogoutThen(ok) == handleLogoutThen(ok) /\ nEvents' <= MaxChatAuthEvents

ChatNext ==
  \/ \E s \in Sessions : ChatExternalAuthEvent(s)
  \/ DeliverAuthStateChange
  \/ FetchUserProfileTimer
  \/ getSessionThen
  \/ handleLogout
  \/ \E ok \in BOOLEAN : ChatLogoutThen(ok)
  \/ ChatStep

ChatSpec == Init /\ [][ChatNext]_vars

\* The live event channel next to the sends: a session is found at start,
\* the user sends and logs out, the channel reports inserts.  The callback
\* writes only to the console, so the other specifications leave it out.
LiveNext ==
  \/ getSessionThen
  \/ DeliverAuthStateChange
  \/ handleLogout
  \/ \E ok \in BOOLEAN : handleLogoutThen(ok)
  \/ Tick
  \/ \E d \in Drafts : setMessage(d)
  \/ \E i \in 1 .. Len(chats) : handleChatSelect(i)
  \/ handleSendMessage
  \/ \E payload \in InboundPayloads : PostgresChangesInsert(payload)

LiveSpec == Init /\ [][LiveNext]_vars

\* The view functions of the conversation list, for every list of Chat
\* values above as the store of a mounted ChatInterface: the user types into
\* the search box and picks conversations.
ViewInit ==
  /\ authMode = "chat"
  /\ provider \in {SessionOf(u) : u \in Users}
  /\ session = provider
  /\ user = provider.user
  /\ currentUser = fetchUserProfile(user.id, closureUser)
  /\ pendingEmail = EmptyText
  /\ isLoading = FALSE
  /\ getSessionCall = "done"
  /\ loginCall = Idle
  /\ registerCall = Idle
  /\ otpCall = Idle
  /\ resendCall = FALSE
  /\ logoutCalls = 0
  /\ notifs = << >>
  /\ timers = << >>
  /\ nEvents = 0
  /\ now = ClockStart
  /\ chats \in ChatLists(currentUser)
  /\ selectedChat = Null
  /\ message = EmptyText
  /\ searchQuery = EmptyText
  /\ isMobile \in BOOLEAN
  /\ channels = 1
  /\ toasts = << >>
  /\ console = << >>

ViewNext ==
  \/ \E q \in Queries : setSearchQuery(q)
  \/ \E i \in 1 .. Len(chats) : handleChatSelect(i)

ViewSpec == ViewInit /\ [][ViewNext]_vars

TypeOK ==
  /\ authMode \in {"login", "register", "otp", "chat"}
  /\ isLoading \in BOOLEAN
  /\ session \in Sessions
  /\ user \in Users \cup {Null}
  /\ nEvents \in 0 .. MaxAuthEvents
  /\ Len(notifs) <= MaxAuthEvents

\* ----------------------------------------------------------------- claims
\* the first toast of the latest step has this title
Shown(title) == toasts # << >> /\ toasts[1] = title

\* steps of the handlers, told by what they do to the calls in flight
LoginIssued == loginCall = Idle /\ loginCall' # Idle
LoginResolved == loginCall # Idle /\ loginCall' = Idle
LoginFailed == LoginResolved /\ nEvents' = nEvents
OtpIssued == otpCall = Idle /\ otpCall' # Idle
OtpResolved == otpCall # Idle /\ otpCall' = Idle
OtpFailed == OtpResolved /\ nEvents' = nEvents
RegisterResolved == registerCall # Idle /\ registerCall' = Idle
RegisterSucceeded == RegisterResolved /\ Shown("Account created!")'
LogoutResolved == logoutCalls' = logoutCalls - 1
LogoutSucceeded == LogoutResolved /\ nEvents' = nEvents + 1
LogoutFailed == LogoutResolved /\ nEvents' = nEvents
\* the listener handles the oldest notification
Delivered == notifs # << >> /\ notifs' = Tail(notifs)
PendingCause(c) == \E i \in 1 .. Len(notifs) : notifs[i].cause = c

SignedOut ==
  authMode = "login" /\ user = Null /\ session = Null /\ currentUser = Null

\* C1 (as claimed): whenever handleLogout's sign-out call completes, with
\* either outcome, authMode = login and user, session and currentUser are null.
C1_LogoutAlwaysSignsOut == [][LogoutResolved => SignedOut']_vars

\* C1 (amended): a sign-out call that succeeds ends with authMode = login and
\* user, session and currentUser null; one that fails leaves all four as
\* they were.
C1_LogoutSignsOutOnSuccess ==
  [][/\ LogoutSucceeded => SignedOut'
     /\ LogoutFailed => UNCHANGED <<authMode, user, session, currentUser>>]_vars

\* a sign-out has just succeeded and the session is gone
C1_Witness == toasts = <<"Logged out">> /\ SignedOut

\* C2: under fair delivery of the notifications, a sign-in that succeeded is
\* eventually followed by a state with the Principal set and authMode = chat.
C2_LoginLeadsToChat ==
  PendingCause("login") ~> (user # Null /\ session # Null /\ authMode = "chat")

\* handleLogin has completed with success and its notification is still due
C2_Witness ==
  /\ PendingCause("login")
  /\ loginCall = Idle
  /\ Shown("Welcome back!")
  /\ authMode = "login"
  /\ user = Null

\* C3: a login is issued in login mode, and neither issuing it nor its
\* failure changes authMode, user, session, currentUser or pendingEmail.
C3_FailedLoginMutatesNothing ==
  [][/\ LoginIssued => authMode = "login"
     /\ LoginIssued \/ LoginFailed =>
          UNCHANGED <<authMode, user, session, currentUser, pendingEmail>>]_vars

\* a sign-in has just failed in login mode
C3_Witness ==
  /\ Shown("Login failed")
  /\ authMode = "login"
  /\ loginCall = Idle
  /\ user = Null

\* C4 (as claimed): when handleRegister completes with success, pendingEmail
\* is the submitted email, authMode = otp, and user and session are null.
C4_RegisterSuccess ==
  [][RegisterSucceeded =>
       /\ pendingEmail' = registerCall.email
       /\ authMode' = "otp"
       /\ user' = Null
       /\ session' = Null]_vars

\* C5: a verification is issued in otp mode, and neither issuing it nor its
\* failure changes authMode or pendingEmail.
C5_FailedVerifyKeepsPending ==
  [][/\ OtpIssued => authMode = "otp" /\ pendingEmail \in RegisterEmails
     /\ OtpIssued \/ OtpFailed => UNCHANGED <<authMode, pendingEmail>>]_vars

\* a verification has just failed and the form still shows the pending email
C5_Witness ==
  /\ Shown("Verification failed")
  /\ authMode = "otp"
  /\ pendingEmail \in RegisterEmails
  /\ otpCall = Idle

\* C6: no step of handleOTPVerification writes user, session or authMode,
\* and, under fair delivery of the notifications, a verification that
\* succeeded is eventually followed by authMode = chat with user set.
C6_VerifyLeadsToChat ==
  /\ [][OtpIssued \/ OtpResolved => UNCHANGED <<user, session, authMode>>]_vars
  /\ PendingCause("otp") ~> (authMode = "chat" /\ user # Null)

\* the verification has succeeded, the Principal has not arrived yet
C6_Witness ==
  /\ PendingCause("otp")
  /\ Shown("Email verified!")
  /\ otpCall = Idle
  /\ authMode = "otp"
  /\ user = Null

\* C7 (as claimed): no step takes authMode from register to chat.
C7_NoRegisterToChat == [][~(authMode = "register" /\ authMode' = "chat")]_vars

\* C8 (as claimed): every step that takes authMode out of chat is a step of
\* the logout: the continuation of handleLogout, or the listener handling the
\* notification of that sign-out.
C8_OnlyLogoutLeavesChat ==
  [][authMode = "chat" /\ authMode' # "chat" =>
       \/ LogoutResolved
       \/ Delivered /\ Head(notifs).cause = "logout"]_vars

\* C8 (amended): every step that takes authMode out of chat is the
\* continuation of a sign-out that succeeded or the listener handling a
\* notification without a session, both of which lead to login, or the
\* continuation of a sign-up that succeeded, which leads to otp.
C8_LeavingChat ==
  [][authMode = "chat" /\ authMode' # "chat" =>
       \/ LogoutSucceeded /\ authMode' = "login"
       \/ Delivered /\ Head(notifs).session = Null /\ authMode' = "login"
       \/ RegisterSucceeded /\ authMode' = "otp"]_vars

\* chat mode has been entered (a channel was opened) and left again, with no
\* sign-out of this client emitted so far
C8_Witness ==
  /\ channels > 0
  /\ authMode = "login"
  /\ ~PendingCause("logout")
  /\ logoutCalls = 0
  /\ toasts = << >>

\* the conversation of the store that is focused
StoreChat(cs, sel) == CHOOSE c \in {cs[i] : i \in 1 .. Len(cs)} : c.id = sel.id

\* C9 (as claimed): a send with a focused conversation and a non-blank draft
\* appends, in the same step, exactly one message to the focused
\* conversation in the store: the stored sequence is the one before the step
\* with one message more, whose senderId is the local user's id and whose
\* content is the trimmed draft.
C9_SendAppendsOne ==
  [][handleSendMessage =>
       LET before == StoreChat(chats, selectedChat).messages
           after == StoreChat(chats', selectedChat).messages
       IN /\ Len(after) = Len(before) + 1
          /\ SubSeq(after, 1, Len(before)) = before
          /\ after[Len(after)].senderId = currentUser.id
          /\ after[Len(after)].content = Trim(message)]_vars

\* C10 (as claimed): no two messages of a conversation in the store have
\* the same id.
C10_UniqueMessageIds ==
  \A c \in 1 .. Len(chats) :
    \A i, j \in 1 .. Len(chats[c].messages) :
      i # j => chats[c].messages[i].id # chats[c].messages[j].id

\* C11 (as claimed): at most one realtime channel subscription is open in
\* every reachable state, and none is open while ChatInterface is not
\* rendered.
C11_OneSubscription ==
  /\ channels <= 1
  /\ ~Mounted(authMode, currentUser) => channels = 0

\* the deferred fetchUserProfile of the listener runs
TimerFired == timers # << >> /\ timers' = Tail(timers)

\* C12 (as claimed): whenever user is null and authMode is not chat,
\* currentUser is null; and a deferred fetchUserProfile that runs in such a
\* state changes neither currentUser nor authMode.
C12_StaleCompletionsAreNoOps ==
  [][/\ user' = Null /\ authMode' # "chat" => currentUser' = Null
     /\ user = Null /\ authMode # "chat" /\ TimerFired =>
          UNCHANGED <<currentUser, authMode>>]_vars

\* the messages of a conversation that a send appended (the mock ones have
\* the ids "1" and "2")
SentMessages(c) ==
  {c.messages[i] : i \in {j \in 1 .. Len(c.messages) : c.messages[j].id \notin {"1", "2"}}}

\* C16 (as claimed): across every step that stays in chat mode, each message
\* that a send appended to a stored conversation is still in the stored
\* conversation of the same id.
C16_StoreLivesThroughChat ==
  [][authMode = "chat" /\ authMode' = "chat" =>
       \A i \in 1 .. Len(chats) :
         \A m \in SentMessages(chats[i]) :
           \E k \in 1 .. Len(chats') :
             chats'[k].id = chats[i].id /\ m \in SentMessages(chats'[k])]_vars

\* C17 (as claimed): whenever currentUser is set for the signed-in user,
\* currentUser.name is the part of user.email before '@' and
\* currentUser.email is user.email.
C17_DisplayNameIsLocalPart ==
  currentUser # Null /\ user # Null /\ currentUser.id = user.id =>
    /\ currentUser.name = SplitAtFirst(user.email)
    /\ currentUser.email = user.email

RegisterIssued == registerCall = Idle /\ registerCall' # Idle
RegisterFailed == RegisterResolved /\ Shown("Registration failed")'

\* C20: a sign-up is issued in register mode, and neither issuing it nor its
\* failure changes authMode, pendingEmail, user or session.
C20_FailedRegisterStays ==
  [][/\ RegisterIssued => authMode = "register"
     /\ RegisterIssued \/ RegisterFailed =>
          UNCHANGED <<authMode, pendingEmail, user, session>>]_vars

\* a sign-up has just failed: the register form is still shown, nobody is
\* signed in and no email is pending
C20_Witness ==
  /\ Shown("Registration failed")
  /\ registerCall = Idle
  /\ authMode = "register"
  /\ pendingEmail = EmptyText
  /\ user = Null

\* the callback handles this payload
InsertHandled(payload) == console' = Append(console, payload)

\* the messages of conversation cid in the store cs, and how many of them
\* have the id mid
StoredMessages(cs, cid) ==
  LET c == CHOOSE c \in {cs[i] : i \in 1 .. Len(cs)} : c.id = cid IN c.messages
CountId(ms, mid) == Cardinality({i \in 1 .. Len(ms) : ms[i].id = mid})

\* C13 (as claimed): when the channel reports the row of a message this
\* client sent, then after the callback the stored conversation holds exactly
\* one message with that id.
C13_EchoConverges ==
  [][\A payload \in InboundPayloads :
       payload.new.id # RemoteMessage.id /\ InsertHandled(payload) =>
         CountId(StoredMessages(chats', payload.chat_id), payload.new.id) = 1]_vars

\* C14: handling an event that was handled before leaves every stored
\* message sequence as the first handling left it: the second delivery
\* changes nothing in the store.
C14_RemoteIdempotent ==
  [][\A payload \in InboundPayloads :
       InsertHandled(payload) /\ (\E k \in 1 .. Len(console) : console[k] = payload) =>
         chats' = chats]_vars

\* the same event has been handled twice in chat mode
C14_Witness ==
  /\ Len(console) >= 2
  /\ console[1] = console[2]
  /\ Mounted(authMode, currentUser)
  /\ chats # << >>

\* C15 (as claimed): when the channel reports a message for a stored
\* conversation that holds no message with its id, the message is in that
\* conversation's sequence after the callback.
C15_RemoteRouted ==
  [][\A payload \in InboundPayloads :
       /\ InsertHandled(payload)
       /\ Mounted(authMode, currentUser)
       /\ CountId(StoredMessages(chats, payload.chat_id), payload.new.id) = 0
       => CountId(StoredMessages(chats', payload.chat_id), payload.new.id) = 1]_vars

\* the other participant of a conversation of exactly the local user and one
\* other, that is not a group; none otherwise
Counterpart(chat, cu) ==
  IF /\ ~chat.isGroup
     /\ Len(chat.participants) = 2
     /\ \E i \in 1 .. 2 : chat.participants[i].id = cu.id
     /\ \E i \in 1 .. 2 : chat.participants[i].id # cu.id
    THEN CHOOSE p \in {chat.participants[i] : i \in 1 .. 2} : p.id # cu.id
    ELSE Null

Matches(chat, q, cu) ==
  \/ q = EmptyText
  \/ /\ Counterpart(chat, cu) # Null
     /\ includes(toLowerCase(Counterpart(chat, cu).name), toLowerCase(q))
  \/ chat.name # Null /\ includes(toLowerCase(chat.name.text), toLowerCase(q))

ResendIssued == ~resendCall /\ resendCall'
ResendResolved == resendCall /\ ~resendCall'

\* C21: neither issuing a resend nor its completion, with success or with
\* failure, changes authMode, pendingEmail, user, session or currentUser.
C21_ResendFrame ==
  [][ResendIssued \/ ResendResolved =>
       UNCHANGED <<authMode, pendingEmail, user, session, currentUser>>]_vars

\* a resend has just failed and the verify form still waits for the code
C21_Witness ==
  /\ Shown("Failed to resend OTP")
  /\ ~resendCall
  /\ authMode = "otp"
  /\ pendingEmail \in RegisterEmails

\* C22: in every stored conversation the timestamps do not decrease along
\* the message sequence.
C22_TimestampOrder ==
  \A c \in 1 .. Len(chats) :
    \A i, j \in 1 .. Len(chats[c].messages) :
      i < j => chats[c].messages[i].timestamp <= chats[c].messages[j].timestamp

\* a stored conversation holds the two loaded messages and two sent ones,
\* the second sent at a later clock reading than the first
C22_Witness ==
  \E c \in 1 .. Len(chats) :
    /\ Len(chats[c].messages) = 4
    /\ chats[c].messages[3].timestamp < chats[c].messages[4].timestamp

\* C23 (as claimed): every message of every stored conversation has the id
\* of one of that conversation's participants as its senderId.
C23_SenderIsParticipant ==
  \A c \in 1 .. Len(chats) :
    \A i \in 1 .. Len(chats[c].messages) :
      \E k \in 1 .. Len(chats[c].participants) :
        chats[c].participants[k].id = chats[c].messages[i].senderId

\* C24 (as claimed): whenever currentUser and user are both set, they have
\* the same id.
C24_ProfileIdIsPrincipalId ==
  currentUser # Null /\ user # Null => currentUser.id = user.id

\* C27 (as claimed): whenever a conversation is focused, the store holds a
\* conversation with its id and with the same message sequence.
C27_SnapshotAgreesWithStore ==
  selectedChat # Null =>
    \E c \in 1 .. Len(chats) :
      chats[c].id = selectedChat.id /\ chats[c].messages = selectedChat.messages

\* C28 (as claimed): authMode = chat exactly when session and user are set.
C28_ChatIffSession ==
  authMode = "chat" <=> (session # Null /\ user # Null)

\* the titles a step has shown
Toasted(title) == \E i \in 1 .. Len(toasts) : toasts[i] = title
SuccessTitles == {"Welcome back!", "Account created!", "Email verified!"}
FailureTitles == {"Login failed", "Registration failed", "Verification failed"}

\* C29 (as claimed): a sign-in, sign-up or verification that fails shows a
\* failure toast and no success toast, from the handler or from its form.
C29_FailureNeverToastsSuccess ==
  [][LoginFailed \/ RegisterFailed \/ OtpFailed =>
       /\ \E t \in FailureTitles : Toasted(t)'
       /\ \A t \in SuccessTitles : ~Toasted(t)']_vars

\* the realtime callback runs
InsertStep == Len(console') = Len(console) + 1

\* C25: a sign-out that succeeds leaves the store empty: no conversation is
\* stored or focused and every search returns nothing, for as long as the
\* mode is not chat; and a realtime event handled outside chat mode changes
\* none of chats, selectedChat, currentUser and authMode.
C25_Teardown ==
  [][/\ LogoutSucceeded => authMode' = "login"
     /\ authMode' # "chat" =>
          /\ chats' = << >>
          /\ selectedChat' = Null
          /\ \A q \in Queries : filteredChats(chats', q, currentUser') = << >>
     /\ InsertStep /\ authMode # "chat" =>
          UNCHANGED <<chats, selectedChat, currentUser, authMode>>]_vars

\* the session has been signed out, the leaked subscription is still open
\* and its callback has handled an event; nothing is stored
C25_Witness ==
  /\ SignedOut
  /\ provider = Null
  /\ logoutCalls = 0
  /\ channels > 0
  /\ Len(console) = MaxInbound
  /\ chats = << >>
  /\ selectedChat = Null

\* the effect of ChatInterface runs loadChats
Loaded == channels' = channels + 1

\* C26: a load focuses the conversation exactly when the store then holds
\* one conversation and the layout is not mobile; otherwise the selection is
\* what it was, that is none after the first load.
C26_AutoSelect ==
  [][Loaded =>
       IF Len(chats') = 1 /\ ~isMobile
         THEN selectedChat' = chats'[1]
         ELSE selectedChat' =
                IF Mounted(authMode, currentUser) THEN selectedChat ELSE Null]_vars

\* the one conversation was loaded in the mobile layout: nothing is focused
C26_Witness ==
  /\ Mounted(authMode, currentUser)
  /\ isMobile
  /\ Len(chats) = 1
  /\ selectedChat = Null

\* the sign-in, sign-up and verification calls in flight
InFlight ==
  {c \in {"login", "register", "otp"} :
     \/ c = "login" /\ loginCall # Idle
     \/ c = "register" /\ registerCall # Idle
     \/ c = "otp" /\ otpCall # Idle}

\* C30: isLoading is true exactly when a sign-in, sign-up or verification
\* call is in flight, and at most one of them is in flight.
C30_LoadingTracksInFlight ==
  /\ isLoading <=> InFlight # {}
  /\ Cardinality(InFlight) <= 1

\* a sign-in is in flight while the register form is shown: its submit
\* button is disabled
C30_Witness ==
  /\ loginCall # Idle
  /\ authMode = "register"
  /\ isLoading

====
